---- MODULE Spec2Model ----
(***************************************************************************)
(* Cycle-level model of litelitedram.                                      *)
(*                                                                         *)
(* SlowDDR3 (src/litelitedram/ddr3.py) is a purely combinational bridge    *)
(* between a Wishbone bus and the streaming ports of the slowDDR3          *)
(* controller, which is instantiated as an opaque netlist.  A state of the *)
(* model is one clock cycle: the values the bus master and the controller  *)
(* drive during that cycle, and the registers of the master and of the     *)
(* controller.  The outputs of the bridge are operators over that state,   *)
(* computed as Migen computes a comb block: a target that no executed      *)
(* statement assigns has its reset value 0.                                *)
(*                                                                         *)
(* Spec     the bridge with an unconstrained bus master and an             *)
(*          unconstrained controller (any input combination, any cycle).   *)
(* SpecSys  the bridge between a bus master built from the WBInterface     *)
(*          handlers of src/examples/sim.py and the controller modelled    *)
(*          from section 4.2 of the specification.                         *)
(* SpecCtl  the controller of section 4.2 alone, its request ports driven  *)
(*          with every combination of values.                              *)
(* SpecReg  WBRegister (src/examples/sim.py) under an unconstrained master.*)
(* SpecTest WBRegisterTester wired to a WBRegister(32).                    *)
(* SpecEx   the Example FSM of src/examples/fsm.py.                        *)
(* SpecBuild SlowDDR3.do_finalize and _needs_rebuild.                      *)
(* SpecWalk get_signals and get_signals_tree of src/litelitedram/utils.py. *)
(***************************************************************************)
EXTENDS Integers, Naturals, Sequences, FiniteSets, TLC

\* ------------------------------------------------------------------------
\* Bounds of the model
\* ------------------------------------------------------------------------
MaxAdr == 1
MaxData == 2

\* Timing parameters of the controller netlist.  They are configuration
\* of the external generator, not visible in this repository.
WaitCycles == 2
CmdCycles == 1
ReadLatency == 2
WriteLatency == 2
RefreshLatency == 2
RefreshThreshold == 4

\* Constructor arguments tried: widths 8, 16, .., 8 * MaxWidthBytes bits and
\* capacities of 1, 2, .., MaxHalfGbit half gigabits.
MaxWidthBytes == 4
MaxHalfGbit == 6

\* Clock cycles of the Example FSM that are followed; one full turn of
\* its 8-bit counter takes 512.
MaxCycles == 520

\* File modification times 0..MaxMtime, dependency lists of up to MaxDeps.
MaxMtime == 2
MaxDeps == 2

\* Objects 1..MaxObj of the graphs walked by get_signals.
MaxObj == 2

Adr == 0..MaxAdr
Data == 0..MaxData

\* ------------------------------------------------------------------------
\* Program constants
\* ------------------------------------------------------------------------
width == 16
SelMax == 2 ^ (width \div 8) - 1
Sel == 0..SelMax

\* Capacities are counted in bytes: 2 * _gbit bits does not fit the
\* integers of the model checker.  bitsize // width is then
\* bytes \div (width \div 8), exact for widths that are whole bytes.
kbit == 1024 \div 8
mbit == kbit * 1024
gbit == mbit * 1024

WAIT0 == 0
CKE == 1
MRS2 == 2
MRS3_swapped == 3 + 1
MRS3 == 3
MRS1 == 4
MRS0 == 5
ZQCL == 6
WAIT1 == 7

IDLE == 0
READ == 1
WRITE == 2
REFRESH == 3

Drivers == {"master", "bridge", "merged"}

\* A released (undriven) data pin, a value outside Data.
HiZ == MaxData + 1

\* A data pin driven with different values from both sides.
Contended == MaxData + 2

\* A 32-bit word is the pair <<high half, low half>> of its 16-bit halves.
HalfMod == 2 ^ 16
Zero == <<0, 0>>
Add1(w) ==
    IF w[2] + 1 = HalfMod THEN <<(w[1] + 1) % HalfMod, 0>> ELSE <<w[1], w[2] + 1>>

\* WBRegisterTester: magic = 0xDEAD_BEEF, tries is 8 bits wide.
magic == <<57005, 48879>>
TriesMod == 2 ^ 8

\* SimSoC: the tester addresses word wb_reg32_base // 4; WBRegister keeps
\* addr_width = 16 bits of it in a.
wb_reg32_base == 805306368
test_addr == wb_reg32_base \div 4
addr_width == 16

\* Example: counter is 8 bits wide; x has 7 elements, each a Signal()
\* of the default width 1; 89 is assigned to an element of x.
CounterMod == 2 ^ 8
ArrayLen == 7
ElemMod == 2 ^ 1
x_value == 89

\* os.path.getmtime of a file that does not exist raises; its place in
\* the model's file system holds Missing.
Missing == 0 - 1
Mtimes == 0..MaxMtime

Objs == 1..MaxObj
NoObj == 0

VARIABLES
    cyc, stb, we, adr, dat_w, sel,       \* driven on the bus by the master
    wr_ready, rd_valid, rd_data, initfin,\* driven by the controller
    drv,                                 \* which comb driver of bus.adr / bus.dat_w the build keeps
    rst,                                 \* synchronous reset of the sys clock domain
    init_state, work_state, refresh_cnt, refresh_issued,  \* debug outputs of the controller
    init_cnt, work_cnt, c_addr, mem,     \* registers and array behind the controller
    m_state, m_a, m_v, tmp,              \* the bus master: FSM state, operands, word read
    age,                                 \* history: cycles since the last refresh was issued
    cs, cas, ras, phy_we,                \* command strobes out of the controller, active high
    dq_o, dq_oe, dq_ext,                 \* data pins: controller output, output enable, device drive
    k_pc, k_width, k_bitsize, k_debug,   \* SlowDDR3.__init__: position and arguments
    k_made, k_addr_w, k_adr_w, k_sel_w,  \* SlowDDR3.__init__: objects created, signal widths
    r_cyc, r_stb, r_we, r_adr, r_dat_w,  \* WBRegister: its bus inputs in this cycle
    r_q, r_fsm,                          \* WBRegister: storage, FSM state
    t_fsm, t_tmp, t_tries,               \* WBRegisterTester: FSM state, tmp, tries
    e_fsm, e_counter, e_x, e_n,          \* Example: FSM state, counter, array x, cycles elapsed
    b_top, b_pc, b_tgt, b_deps, b_i, b_ret, \* do_finalize: function called, position, mtimes, loop index, result
    b_ran, b_added,                      \* do_finalize: generator invoked, source registered
    g_pc, g_sig, g_rec, g_child, g_item, \* get_signals: position, the object graph
    g_recurse, g_ret, g_tree,            \* get_signals: argument, results
    i_sysIO_dataWr_valid, i_sysIO_dataRd_ready,  \* input ports of the controller instance,
    i_sysIO_address, i_sysIO_dataWr_payload,     \* when they are driven without the bridge
    i_sysIO_sel,
    prev_wr_valid, prev_rd_ready         \* history: the two request ports in the previous cycle

busvars == <<cyc, stb, we, adr, dat_w, sel>>
ctlout == <<wr_ready, rd_valid, rd_data, initfin>>
ctlregs == <<init_state, work_state, refresh_cnt, refresh_issued, init_cnt, work_cnt, c_addr, mem>>
mvars == <<m_state, m_a, m_v, tmp>>
phyvars == <<cs, cas, ras, phy_we, dq_o, dq_oe, dq_ext>>
ctorvars == <<k_pc, k_width, k_bitsize, k_debug, k_made, k_addr_w, k_adr_w, k_sel_w>>
regvars == <<r_cyc, r_stb, r_we, r_adr, r_dat_w, r_q, r_fsm>>
tstvars == <<t_fsm, t_tmp, t_tries>>
exvars == <<e_fsm, e_counter, e_x, e_n>>
bldvars == <<b_top, b_pc, b_tgt, b_deps, b_i, b_ret, b_ran, b_added>>
walkvars == <<g_pc, g_sig, g_rec, g_child, g_item, g_recurse, g_ret, g_tree>>
portvars == <<i_sysIO_dataWr_valid, i_sysIO_dataRd_ready, i_sysIO_address,
              i_sysIO_dataWr_payload, i_sysIO_sel, prev_wr_valid, prev_rd_ready>>
extvars == <<regvars, tstvars, exvars, bldvars, walkvars, portvars>>
vars == <<cyc, stb, we, adr, dat_w, sel, wr_ready, rd_valid, rd_data, initfin, drv,
          rst, init_state, work_state, refresh_cnt, refresh_issued,
          init_cnt, work_cnt, c_addr, mem, m_state, m_a, m_v, tmp, age,
          cs, cas, ras, phy_we, dq_o, dq_oe, dq_ext,
          k_pc, k_width, k_bitsize, k_debug, k_made, k_addr_w, k_adr_w, k_sel_w,
          r_cyc, r_stb, r_we, r_adr, r_dat_w, r_q, r_fsm, t_fsm, t_tmp, t_tries,
          e_fsm, e_counter, e_x, e_n,
          b_top, b_pc, b_tgt, b_deps, b_i, b_ret, b_ran, b_added,
          g_pc, g_sig, g_rec, g_child, g_item, g_recurse, g_ret, g_tree,
          i_sysIO_dataWr_valid, i_sysIO_dataRd_ready, i_sysIO_address,
          i_sysIO_dataWr_payload, i_sysIO_sel, prev_wr_valid, prev_rd_ready>>

\* ------------------------------------------------------------------------
\* SlowDDR3.__init__, the comb block of the bridge
\* ------------------------------------------------------------------------
wb_valid == cyc /\ stb

\* sysio.addr and sysio.wr_data are never the target of a statement: the
\* bridge assigns bus.adr and bus.dat_w FROM them, so they keep their reset
\* value.
sysio_addr == 0
sysio_wr_data == 0

sysio_sel_ungated == IF we THEN sel ELSE 0
sysio_sel == IF wb_valid /\ we THEN sel ELSE 0

sysio_wr_valid_any == wb_valid
sysio_wr_valid_after_init == wb_valid /\ we /\ initfin
sysio_wr_valid_until_read == wb_valid /\ we /\ ~rd_valid
sysio_wr_valid == wb_valid /\ we

sysio_rd_ready_any == wb_valid
sysio_rd_ready == wb_valid /\ ~we

bus_ack_after_init ==
    IF wb_valid /\ init_state = WAIT1
    THEN (IF we THEN wr_ready ELSE sysio_rd_ready) ELSE FALSE
bus_ack_wr_valid == IF wb_valid THEN (IF we THEN sysio_wr_valid ELSE sysio_rd_ready) ELSE FALSE
bus_ack_ungated == IF we THEN wr_ready ELSE sysio_rd_ready
bus_ack == IF wb_valid THEN (IF we THEN wr_ready ELSE sysio_rd_ready) ELSE FALSE

bus_dat_r_valid_only == IF wb_valid /\ ~we /\ rd_valid THEN rd_data ELSE 0
bus_dat_r == IF wb_valid /\ ~we THEN rd_data ELSE 0

\* bus.adr and bus.dat_w have two comb drivers, the bus master and the
\* bridge.  Which one the generated netlist keeps depends on the order in
\* which the statements are emitted: the master's alone, the bridge's alone
\* (reset value when its condition is false), or the bridge's conditional
\* assignment on top of the master's.
bridge_adr == IF wb_valid THEN sysio_addr ELSE 0
bridge_dat_w == IF wb_valid /\ we THEN sysio_wr_data ELSE 0

bus_adr ==
    CASE drv = "master" -> adr
      [] drv = "bridge" -> bridge_adr
      [] drv = "merged" -> IF wb_valid THEN sysio_addr ELSE adr

bus_dat_w ==
    CASE drv = "master" -> dat_w
      [] drv = "bridge" -> bridge_dat_w
      [] drv = "merged" -> IF wb_valid /\ we THEN sysio_wr_data ELSE dat_w

\* ------------------------------------------------------------------------
\* Spec: the bridge under every input combination
\* ------------------------------------------------------------------------
InitSys ==
    /\ cyc = FALSE /\ stb = FALSE /\ we = FALSE
    /\ adr = 0 /\ dat_w = 0 /\ sel = 0
    /\ wr_ready = FALSE /\ rd_valid = FALSE /\ rd_data = 0 /\ initfin = FALSE
    /\ drv \in Drivers
    /\ rst = FALSE
    /\ init_state = WAIT0 /\ init_cnt = 0
    /\ work_state = IDLE /\ work_cnt = 0 /\ c_addr = 0
    /\ refresh_cnt = 0 /\ refresh_issued = FALSE
    /\ mem = [a \in Adr |-> 0]
    /\ m_state = "IDLE" /\ m_a = 0 /\ m_v = 0 /\ tmp = 0
    /\ age = 0

\* The input ports of a controller instance that is driven directly: no
\* request.
InitPorts ==
    /\ i_sysIO_dataWr_valid = FALSE /\ i_sysIO_dataRd_ready = FALSE
    /\ i_sysIO_address = 0 /\ i_sysIO_dataWr_payload = 0 /\ i_sysIO_sel = 0
    /\ prev_wr_valid = FALSE /\ prev_rd_ready = FALSE

\* The pins at reset: no command, data pins released.
InitPhy ==
    /\ cs = FALSE /\ cas = FALSE /\ ras = FALSE /\ phy_we = FALSE
    /\ dq_o = 0 /\ dq_oe = FALSE /\ dq_ext = HiZ

\* No SlowDDR3 is being constructed.
InitNoCtor ==
    /\ k_pc = "none" /\ k_width = width /\ k_bitsize = 0 /\ k_debug = FALSE
    /\ k_made = {} /\ k_addr_w = 0 /\ k_adr_w = 0 /\ k_sel_w = 0

\* WBRegister and WBRegisterTester after reset: FSMs in their first
\* state, registers 0, the tester's comb bus outputs in START are 0.
InitReg ==
    /\ r_cyc = FALSE /\ r_stb = FALSE /\ r_we = FALSE
    /\ r_adr = 0 /\ r_dat_w = Zero
    /\ r_q = Zero /\ r_fsm = "READ_WRITE"

InitTester == t_fsm = "START" /\ t_tmp = Zero /\ t_tries = 0

\* Example after reset.
InitExample ==
    /\ e_fsm = "FOO" /\ e_counter = 0
    /\ e_x = [i \in 0..(ArrayLen - 1) |-> 0] /\ e_n = 0

\* do_finalize is not running; get_signals is not running.
InitNoBuild ==
    /\ b_top = "none" /\ b_pc = "none" /\ b_tgt = Missing /\ b_deps = <<>> /\ b_i = 0
    /\ b_ret = FALSE /\ b_ran = FALSE /\ b_added = FALSE

InitNoWalk ==
    /\ g_pc = "none"
    /\ g_sig = [o \in Objs |-> FALSE] /\ g_rec = [o \in Objs |-> FALSE]
    /\ g_child = [o \in Objs |-> NoObj] /\ g_item = [o \in Objs |-> NoObj]
    /\ g_recurse = FALSE /\ g_ret = [raised |-> FALSE, sigs |-> {}] /\ g_tree = {}

InitExt == InitReg /\ InitTester /\ InitExample /\ InitNoBuild /\ InitNoWalk /\ InitPorts

Init == InitSys /\ InitPhy /\ InitNoCtor /\ InitExt

\* The master presents no transaction: cyc and stb are not both asserted.
MasterIdle ==
    /\ \E c \in BOOLEAN, s \in BOOLEAN : ~(c /\ s) /\ cyc' = c /\ stb' = s
    /\ we' \in BOOLEAN /\ adr' \in Adr /\ dat_w' \in Data /\ sel' \in Sel
    /\ UNCHANGED <<ctlout, drv, rst, ctlregs, mvars, age, phyvars, ctorvars, extvars>>

\* The master presents a write of d to word a with byte select s.
MasterWrite ==
    /\ cyc' = TRUE /\ stb' = TRUE /\ we' = TRUE
    /\ adr' \in Adr /\ dat_w' \in Data /\ sel' \in Sel
    /\ UNCHANGED <<ctlout, drv, rst, ctlregs, mvars, age, phyvars, ctorvars, extvars>>

\* The master presents a read of word a.
MasterRead ==
    /\ cyc' = TRUE /\ stb' = TRUE /\ we' = FALSE
    /\ adr' \in Adr /\ dat_w' \in Data /\ sel' \in Sel
    /\ UNCHANGED <<ctlout, drv, rst, ctlregs, mvars, age, phyvars, ctorvars, extvars>>

\* The controller netlist is opaque to the bridge: its streaming outputs
\* take any value.
ControllerDrive ==
    /\ wr_ready' \in BOOLEAN /\ rd_valid' \in BOOLEAN
    /\ rd_data' \in Data /\ initfin' \in BOOLEAN
    /\ UNCHANGED <<busvars, drv, rst, ctlregs, mvars, age, phyvars, ctorvars, extvars>>

Next == MasterIdle \/ MasterWrite \/ MasterRead \/ ControllerDrive

Spec == Init /\ [][Next]_vars

\* ------------------------------------------------------------------------
\* The slowDDR3 controller, from its contract (specification section 4.2)
\* ------------------------------------------------------------------------
InitOrder == <<WAIT0, CKE, MRS2, MRS3, MRS1, MRS0, ZQCL, WAIT1>>

\* Cycles spent in an initialization state.
InitCycles(s) == IF s = WAIT0 \/ s = WAIT1 THEN WaitCycles ELSE CmdCycles

\* Cycles spent in a work state other than IDLE.
Latency_one_more(w) ==
    CASE w = READ -> ReadLatency + 1
      [] w = WRITE -> WriteLatency + 1
      [] w = REFRESH -> RefreshLatency + 1
      [] OTHER -> 1
Latency(w) ==
    CASE w = READ -> ReadLatency
      [] w = WRITE -> WriteLatency
      [] w = REFRESH -> RefreshLatency
      [] OTHER -> 1

\* A word of the array after a write of new under byte select s.
ByteMerge(old, new, s) ==
    LET lo == IF s % 2 = 1 THEN new % 256 ELSE old % 256
        hi == IF (s \div 2) % 2 = 1 THEN new \div 256 ELSE old \div 256
    IN  hi * 256 + lo

\* The streaming outputs are registered: they are a function of the state
\* the controller is in during the cycle.
CtlOutputs ==
    /\ wr_ready' = (work_state' = WRITE /\ work_cnt' = WriteLatency - 1)
    /\ rd_valid' = (work_state' = READ /\ work_cnt' = ReadLatency - 1)
    /\ rd_data' = IF work_state' = READ /\ work_cnt' = ReadLatency - 1
                  THEN mem'[c_addr'] ELSE rd_data

\* Synchronous reset.
CtlReset ==
    /\ init_state' = WAIT0 /\ init_cnt' = 0 /\ initfin' = FALSE
    /\ work_state' = IDLE /\ work_cnt' = 0
    /\ refresh_cnt' = 0 /\ refresh_issued' = FALSE
    /\ UNCHANGED <<c_addr, mem>>
    /\ wr_ready' = FALSE /\ rd_valid' = FALSE /\ rd_data' = rd_data

\* Initialization phase: each state lasts InitCycles, then the next one in
\* sequence is entered; leaving WAIT1 asserts initfin.
CtlInit ==
    /\ IF init_cnt + 1 < InitCycles(init_state)
       THEN /\ init_cnt' = init_cnt + 1
            /\ UNCHANGED <<init_state, initfin>>
       ELSE /\ init_cnt' = 0
            /\ IF init_state = WAIT1
               THEN initfin' = TRUE /\ init_state' = init_state
               ELSE initfin' = FALSE /\ init_state' = init_state + 1
    /\ UNCHANGED <<work_state, work_cnt, refresh_cnt, refresh_issued, c_addr, mem>>
    /\ CtlOutputs

\* The work state entered from IDLE.
Arbitrate_read_first(due, wr, rd) ==
    IF due THEN REFRESH ELSE IF rd THEN READ ELSE IF wr THEN WRITE ELSE IDLE
Arbitrate_requests_first(due, wr, rd) ==
    IF wr THEN WRITE ELSE IF rd THEN READ ELSE IF due THEN REFRESH ELSE IDLE
Arbitrate(due, wr, rd) ==
    IF due THEN REFRESH ELSE IF wr THEN WRITE ELSE IF rd THEN READ ELSE IDLE

\* Work phase: from IDLE, refresh > write > read > idle; from the other
\* states back to IDLE after the operation's latency.  A write transfer
\* (wr_valid and wr_ready in the same cycle) stores the payload.  wr, rd,
\* addr, data and sl are what the input ports dataWr_valid, dataRd_ready,
\* address, dataWr_payload and sel carry in this cycle.
CtlWorkOn(wr, rd, addr, data, sl) ==
    /\ UNCHANGED <<init_state, init_cnt, initfin>>
    /\ IF work_state = IDLE
       THEN /\ work_state' = Arbitrate(refresh_cnt >= RefreshThreshold, wr, rd)
            /\ refresh_issued' = (work_state' = REFRESH)
            /\ refresh_cnt' = IF work_state' = REFRESH THEN 0
                              ELSE IF refresh_cnt < RefreshThreshold
                                   THEN refresh_cnt + 1 ELSE refresh_cnt
            /\ c_addr' = IF work_state' = READ THEN addr ELSE c_addr
            /\ mem' = mem
       ELSE /\ refresh_issued' = FALSE
            /\ refresh_cnt' = IF refresh_cnt < RefreshThreshold
                              THEN refresh_cnt + 1 ELSE refresh_cnt
            /\ c_addr' = c_addr
            /\ work_state' = IF work_cnt + 1 < Latency(work_state)
                             THEN work_state ELSE IDLE
            /\ mem' = IF wr_ready /\ wr
                      THEN [mem EXCEPT ![addr] = ByteMerge(mem[addr], data, sl)]
                      ELSE mem
    /\ work_cnt' = IF work_state' = work_state /\ work_state # IDLE
                   THEN work_cnt + 1 ELSE 0
    /\ CtlOutputs

\* The instance inside SlowDDR3: its input ports are the bridge's sysio
\* signals.
CtlWork ==
    CtlWorkOn(sysio_wr_valid, sysio_rd_ready, sysio_addr, sysio_wr_data, sysio_sel)

CtlStep_early == IF initfin \/ sysio_wr_valid THEN CtlWork ELSE CtlInit
CtlStep == IF initfin THEN CtlWork ELSE CtlInit

\* The netlist's reset input is active low: i_resetn=~ResetSignal().
i_resetn_noninverted == rst
i_resetn == ~rst

CtlClock == IF i_resetn THEN CtlStep ELSE CtlReset

\* History of the refresh schedule: cycles since refresh_issued was last
\* asserted, or since initialization finished.
MaxLatency ==
    LET m == IF ReadLatency > WriteLatency THEN ReadLatency ELSE WriteLatency
    IN  IF RefreshLatency > m THEN RefreshLatency ELSE m

AgeCap == RefreshThreshold + MaxLatency + 2

AgeStep ==
    age' = IF refresh_issued' \/ ~initfin \/ ~initfin' THEN 0
           ELSE IF age < AgeCap THEN age + 1 ELSE age

\* ------------------------------------------------------------------------
\* The bus master of the end-to-end scenario: a write of a word, then a
\* read of the same word, then the comparison.  No master of the SlowDDR3
\* bus is part of the sources (SimSoC builds WBRegisterTester only without
\* the DRAM); the two transfers are driven as the WBInterface handlers
\* drive them, with next_state READ and CHECK
\* ------------------------------------------------------------------------
\* The bus signals are comb outputs of the master's FSM state.
MasterDrive ==
    /\ cyc' = (m_state' \in {"WRITE", "READ"})
    /\ stb' = (m_state' \in {"WRITE", "READ"})
    /\ we' = (m_state' = "WRITE")
    /\ adr' = IF m_state' \in {"WRITE", "READ"} THEN m_a' ELSE 0
    /\ dat_w' = IF m_state' = "WRITE" THEN m_v' ELSE 0
    /\ sel' = IF m_state' \in {"WRITE", "READ"} THEN SelMax ELSE 0

\* controller_write_hdl: drive the write until ack, then go on.
controller_write_hdl ==
    /\ m_state = "WRITE"
    /\ m_state' = IF bus_ack THEN "READ" ELSE "WRITE"
    /\ UNCHANGED <<m_a, m_v, tmp>>

\* controller_read_hdl: drive the read until ack, then latch dat_r.
controller_read_hdl ==
    /\ m_state = "READ"
    /\ m_state' = IF bus_ack THEN "CHECK" ELSE "READ"
    /\ tmp' = IF bus_ack THEN bus_dat_r ELSE tmp
    /\ UNCHANGED <<m_a, m_v>>

\* ------------------------------------------------------------------------
\* SpecSys: master, bridge and controller on one clock
\* ------------------------------------------------------------------------
\* What every clock edge does besides the master's FSM: the controller
\* (reset through i_resetn), the master's bus outputs, the reset input of
\* the next cycle.
SysClock ==
    /\ CtlClock /\ MasterDrive /\ AgeStep
    /\ rst' \in BOOLEAN /\ drv' = drv
    /\ UNCHANGED <<phyvars, ctorvars, extvars>>

\* The master is idle; it may start a write of v to word a.  The bus does
\* not carry initfin, so the master does not wait for it.
SysStart ==
    /\ ~rst /\ m_state = "IDLE"
    /\ \/ UNCHANGED mvars
       \/ m_state' = "WRITE" /\ m_a' \in Adr /\ m_v' \in Data /\ tmp' = tmp
    /\ SysClock

SysWrite ==
    /\ ~rst /\ controller_write_hdl
    /\ SysClock

SysRead ==
    /\ ~rst /\ controller_read_hdl
    /\ SysClock

\* The scenario's comparison of the word read back; then the master is
\* idle again and may start the next write.
SysCheck ==
    /\ ~rst /\ m_state = "CHECK"
    /\ m_state' = "IDLE" /\ UNCHANGED <<m_a, m_v, tmp>>
    /\ SysClock

\* A clock edge with reset asserted.
SysReset ==
    /\ rst
    /\ m_state' = "IDLE" /\ m_a' = 0 /\ m_v' = 0 /\ tmp' = 0
    /\ SysClock

SysNext == SysStart \/ SysWrite \/ SysRead \/ SysCheck \/ SysReset

SpecSys == Init /\ [][SysNext]_vars

\* ------------------------------------------------------------------------
\* SpecCtl: the controller alone.  Its request ports take any combination
\* of values in every cycle, a write and a read request together included,
\* which the bridge never presents.  The address, payload and byte select
\* ports carry any value, held for the whole run.
\* ------------------------------------------------------------------------
InitCtl ==
    /\ InitSys /\ drv = "master" /\ InitPhy /\ InitNoCtor
    /\ InitReg /\ InitTester /\ InitExample /\ InitNoBuild /\ InitNoWalk
    /\ i_sysIO_dataWr_valid = FALSE /\ i_sysIO_dataRd_ready = FALSE
    /\ i_sysIO_address \in Adr /\ i_sysIO_dataWr_payload \in Data
    /\ i_sysIO_sel \in Sel
    /\ prev_wr_valid = FALSE /\ prev_rd_ready = FALSE

CtlPortsStep ==
    IF initfin
    THEN CtlWorkOn(i_sysIO_dataWr_valid, i_sysIO_dataRd_ready, i_sysIO_address,
                   i_sysIO_dataWr_payload, i_sysIO_sel)
    ELSE CtlInit

CtlPortsClock == IF i_resetn THEN CtlPortsStep ELSE CtlReset

\* What drives the ports chooses the requests of the next cycle.
PortsDrive ==
    /\ i_sysIO_dataWr_valid' \in BOOLEAN /\ i_sysIO_dataRd_ready' \in BOOLEAN
    /\ UNCHANGED <<i_sysIO_address, i_sysIO_dataWr_payload, i_sysIO_sel>>
    /\ prev_wr_valid' = i_sysIO_dataWr_valid
    /\ prev_rd_ready' = i_sysIO_dataRd_ready

CtlFrame ==
    UNCHANGED <<busvars, drv, mvars, age, phyvars, ctorvars,
                regvars, tstvars, exvars, bldvars, walkvars>>

\* A clock edge with reset released.
CtlRun ==
    /\ ~rst /\ CtlPortsClock /\ PortsDrive
    /\ rst' \in BOOLEAN /\ CtlFrame

\* A clock edge with reset asserted.
CtlRst ==
    /\ rst /\ CtlPortsClock /\ PortsDrive
    /\ rst' \in BOOLEAN /\ CtlFrame

CtlNext == CtlRun \/ CtlRst

SpecCtl == InitCtl /\ [][CtlNext]_vars

\* ------------------------------------------------------------------------
\* SpecDbg: the debug outputs of the controller change under a bridge
\* whose inputs are held
\* ------------------------------------------------------------------------
InitDbg ==
    /\ cyc \in BOOLEAN /\ stb \in BOOLEAN /\ we \in BOOLEAN
    /\ adr \in Adr /\ dat_w \in Data /\ sel \in Sel
    /\ wr_ready \in BOOLEAN /\ rd_valid \in BOOLEAN
    /\ rd_data \in Data /\ initfin \in BOOLEAN
    /\ drv \in Drivers
    /\ rst = FALSE
    /\ init_state = WAIT0 /\ init_cnt = 0
    /\ work_state = IDLE /\ work_cnt = 0 /\ c_addr = 0
    /\ refresh_cnt = 0 /\ refresh_issued = FALSE
    /\ mem = [a \in Adr |-> 0]
    /\ m_state = "IDLE" /\ m_a = 0 /\ m_v = 0 /\ tmp = 0
    /\ age = 0
    /\ InitPhy /\ InitNoCtor /\ InitExt

\* With debug=True the netlist drives init_state, work_state, refresh_cnt
\* and refresh_issued; to the bridge they take any value.
DebugDrive ==
    /\ init_state' \in {WAIT0, WAIT1}
    /\ work_state' \in {IDLE, REFRESH}
    /\ refresh_cnt' \in {0, RefreshThreshold}
    /\ refresh_issued' \in BOOLEAN
    /\ UNCHANGED <<busvars, ctlout, drv, rst, init_cnt, work_cnt, c_addr, mem,
                   mvars, age, phyvars, ctorvars, extvars>>

SpecDbg == InitDbg /\ [][DebugDrive]_vars

\* ------------------------------------------------------------------------
\* SpecPhy: the pads of the DDR3 device
\* ------------------------------------------------------------------------
\* The command strobes are active low on the pins.
pads_cs_n == ~cs
pads_cas_n_from_ras == ~ras
pads_cas_n == ~cas
pads_ras_n == ~ras
pads_we_n == ~phy_we

\* TSTriple(16).get_tristate(pads.dq): the Tristate drives o onto the pin
\* while oe is asserted and releases it otherwise; the device drives the
\* same net (io_dq=pads.dq) and nothing gates it by oe.  Two drivers with
\* different values contend.  i samples the pin.
pads_dq ==
    IF ~dq_oe THEN dq_ext
    ELSE IF dq_ext = HiZ \/ dq_ext = dq_o THEN dq_o
    ELSE Contended
dq_i == pads_dq

\* The netlist issues any command.
PhyCommand ==
    /\ cs' \in BOOLEAN /\ cas' \in BOOLEAN /\ ras' \in BOOLEAN /\ phy_we' \in BOOLEAN
    /\ UNCHANGED <<dq_o, dq_oe, dq_ext>>
    /\ UNCHANGED <<busvars, ctlout, drv, rst, ctlregs, mvars, age, ctorvars, extvars>>

\* The netlist drives or releases the data pins.
PhyData ==
    /\ dq_o' \in Data /\ dq_oe' \in BOOLEAN
    /\ UNCHANGED <<cs, cas, ras, phy_we, dq_ext>>
    /\ UNCHANGED <<busvars, ctlout, drv, rst, ctlregs, mvars, age, ctorvars, extvars>>

\* The device drives or releases the data pins.
DeviceData ==
    /\ dq_ext' \in Data \cup {HiZ}
    /\ UNCHANGED <<cs, cas, ras, phy_we, dq_o, dq_oe>>
    /\ UNCHANGED <<busvars, ctlout, drv, rst, ctlregs, mvars, age, ctorvars, extvars>>

PhyNext == PhyCommand \/ PhyData \/ DeviceData

SpecPhy == Init /\ [][PhyNext]_vars

\* ------------------------------------------------------------------------
\* SpecCtor: SlowDDR3.__init__, statement by statement
\* ------------------------------------------------------------------------
Widths == {8 * i : i \in 1..MaxWidthBytes}
Bitsizes == {i * (gbit \div 2) : i \in 1..MaxHalfGbit}

\* math.log2 raises ValueError for an argument that is not positive.
ValueError == 0 - 1

RECURSIVE CeilLog2(_)
CeilLog2(n) ==
    IF n <= 0 THEN ValueError
    ELSE IF n = 1 THEN 0 ELSE 1 + CeilLog2((n + 1) \div 2)

\* ceil(log2(bitsize // width)), the width of sysio.addr.
AddrWidth_bytes(w, bytes) == CeilLog2(bytes)
AddrWidth(w, bytes) == CeilLog2(bytes \div (w \div 8))

InitCtor ==
    /\ InitSys /\ InitPhy /\ InitExt
    /\ k_pc = "args"
    /\ k_width \in Widths /\ k_bitsize \in Bitsizes /\ k_debug \in BOOLEAN
    /\ k_made = {} /\ k_addr_w = 0 /\ k_adr_w = 0 /\ k_sel_w = 0

CtorFrame == UNCHANGED <<busvars, ctlout, drv, rst, ctlregs, mvars, age, phyvars,
                         k_width, k_bitsize, k_debug, extvars>>

\* self.width = width; assert width == 16
CtorAssertWidth ==
    /\ k_pc = "args"
    /\ k_pc' = IF k_width = width THEN "bitsize" ELSE "error"
    /\ UNCHANGED <<k_made, k_addr_w, k_adr_w, k_sel_w>> /\ CtorFrame

\* self.bitsize = bitsize; assert bitsize == 2 * _gbit
CtorAssertBitsize_truthy ==
    /\ k_pc = "bitsize"
    /\ k_pc' = IF k_bitsize # 0 THEN "sysio" ELSE "error"
    /\ UNCHANGED <<k_made, k_addr_w, k_adr_w, k_sel_w>> /\ CtorFrame
CtorAssertBitsize ==
    /\ k_pc = "bitsize"
    /\ k_pc' = IF k_bitsize = 2 * gbit THEN "sysio" ELSE "error"
    /\ UNCHANGED <<k_made, k_addr_w, k_adr_w, k_sel_w>> /\ CtorFrame

\* self.sysio = SlowDDR3SysInterface(width, bitsize)
CtorSysio ==
    /\ k_pc = "sysio"
    /\ IF AddrWidth(k_width, k_bitsize) = ValueError
       THEN k_pc' = "error" /\ UNCHANGED <<k_made, k_addr_w, k_sel_w>>
       ELSE /\ k_made' = k_made \cup {"sysio"}
            /\ k_addr_w' = AddrWidth(k_width, k_bitsize)
            /\ k_sel_w' = k_width \div 8
            /\ k_pc' = "bus"
    /\ UNCHANGED k_adr_w /\ CtorFrame

\* self.bus = wishbone.Interface(width, len(sysio.addr))
CtorBus ==
    /\ k_pc = "bus"
    /\ k_made' = k_made \cup {"bus"}
    /\ k_adr_w' = k_addr_w
    /\ k_pc' = "debug"
    /\ UNCHANGED <<k_addr_w, k_sel_w>> /\ CtorFrame

\* if debug: the four debug signals
CtorDebug ==
    /\ k_pc = "debug"
    /\ k_made' = IF k_debug THEN k_made \cup {"debug"} ELSE k_made
    /\ k_pc' = "instance"
    /\ UNCHANGED <<k_addr_w, k_adr_w, k_sel_w>> /\ CtorFrame

\* self.specials += Instance("slowDDR3", ...)
CtorInstance ==
    /\ k_pc = "instance"
    /\ k_made' = k_made \cup {"ctlr"}
    /\ k_pc' = "done"
    /\ UNCHANGED <<k_addr_w, k_adr_w, k_sel_w>> /\ CtorFrame

CtorNext ==
    \/ CtorAssertWidth \/ CtorAssertBitsize \/ CtorSysio
    \/ CtorBus \/ CtorDebug \/ CtorInstance

SpecCtor == InitCtor /\ [][CtorNext]_vars

\* ------------------------------------------------------------------------
\* Claims about the bridge, checked under Spec
\* ------------------------------------------------------------------------
ActiveWrite == wb_valid /\ we
ActiveRead == wb_valid /\ ~we

\* C1: in every cycle with cyc=1, stb=1 and we=1, bus.ack equals the
\* controller's wr_ready of that cycle.
C1_WriteAckIsWrReady == ActiveWrite => (bus_ack <=> wr_ready)

C1_Witness == ActiveWrite /\ wr_ready /\ bus_ack /\ dat_w = MaxData /\ adr = MaxAdr

\* C2: in every cycle with cyc=1, stb=1 and we=0, bus.ack is asserted if and
\* only if the controller's rd_valid is asserted.
C2_ReadAckIsRdValid == ActiveRead => (bus_ack <=> rd_valid)

\* C3: in every cycle with cyc=1, stb=1 and we=1, wr_valid is asserted and
\* the controller sees the data, the address and the byte select that the
\* master put on the bus.
C3_WriteForwarded ==
    ActiveWrite =>
        /\ sysio_wr_valid
        /\ sysio_wr_data = dat_w
        /\ sysio_addr = adr
        /\ sysio_sel = sel

\* C4: in every cycle with an active read in which bus.ack is asserted,
\* bus.dat_r equals the controller's rd_data of that cycle.
C4_ReadDataIsRdData == (ActiveRead /\ bus_ack) => bus_dat_r = rd_data

C4_Witness == ActiveRead /\ bus_ack /\ ~rd_valid /\ rd_data = MaxData /\ bus_dat_r = MaxData

\* C5: bus.ack is never asserted in a cycle where cyc AND stb is false,
\* whatever wr_ready and rd_valid are.
C5_NoAckWhenInactive == ~wb_valid => ~bus_ack

C5_Witness == cyc /\ ~stb /\ we /\ wr_ready /\ rd_valid /\ ~bus_ack

\* C6 as stated: rd_ready is asserted in every cycle in which the bus is
\* idle and in every cycle in which it carries an active read.
C6_RdReadyIdleOrRead == (~wb_valid \/ ActiveRead) => sysio_rd_ready

\* C6 as amended: rd_ready is asserted exactly in the cycles in which the
\* bus carries an active read; it is deasserted while the bus is idle or
\* writing.
C6_RdReadyIffActiveRead == sysio_rd_ready <=> ActiveRead

C6_Witness == ~wb_valid /\ ~we /\ ~sysio_rd_ready /\ rd_valid

\* C7: in every cycle where cyc AND stb is false, wr_valid is deasserted and
\* the controller-side addr and sel are 0.
C7_QuiescentWhenInactive ==
    ~wb_valid => (~sysio_wr_valid /\ sysio_addr = 0 /\ sysio_sel = 0)

C7_Witness == ~wb_valid /\ we /\ sel = SelMax /\ adr = MaxAdr /\ sysio_sel = 0

\* C9: while the master holds an unacknowledged write unchanged, the bridge
\* holds wr_valid asserted and wr_data, addr and sel unchanged into the
\* next cycle, up to and including the cycle in which wr_ready is asserted.
MasterHolds ==
    /\ cyc' = cyc /\ stb' = stb /\ we' = we
    /\ adr' = adr /\ dat_w' = dat_w /\ sel' = sel

C9_WriteHeldUntilReady ==
    [][(ActiveWrite /\ ~bus_ack /\ MasterHolds) =>
          /\ sysio_wr_valid /\ sysio_wr_valid'
          /\ sysio_wr_data' = sysio_wr_data
          /\ sysio_addr' = sysio_addr
          /\ sysio_sel' = sysio_sel]_vars

C9_Witness == ActiveWrite /\ wr_ready /\ rd_valid /\ bus_ack /\ sel = SelMax /\ sysio_sel = SelMax

\* ------------------------------------------------------------------------
\* Claims about the bridge with its controller, checked under SpecSys
\* ------------------------------------------------------------------------
\* C8: after initialization, an acknowledged bus write of V to word A
\* followed by a bus read of A yields dat_r = V in the cycle the read is
\* acknowledged (tmp is dat_r latched in that cycle).
C8_RoundTrip == m_state = "CHECK" => tmp = m_v

\* C10: init_state leaves a state only for its successor in the order
\* WAIT0, CKE, MRS2, MRS3, MRS1, MRS0, ZQCL, WAIT1 (values 0..7), or for
\* WAIT0 on reset; initfin is asserted only after WAIT1 has elapsed, and
\* then init_state and initfin are kept until reset.
InitSuccessor(s, t) ==
    \E i \in 1..(Len(InitOrder) - 1) : s = InitOrder[i] /\ t = InitOrder[i + 1]

C10_InitOrder ==
    [][/\ rst => (init_state' = WAIT0 /\ ~initfin')
       /\ (~rst /\ init_state' # init_state) =>
              (~initfin /\ init_state' = init_state + 1
                 /\ InitSuccessor(init_state, init_state'))
       /\ (~rst /\ initfin' /\ ~initfin) =>
              (init_state = WAIT1 /\ init_cnt = InitCycles(WAIT1) - 1)
       /\ initfin' => init_state' = WAIT1
       /\ (~rst /\ initfin) => (initfin' /\ init_state' = init_state)]_vars

C10_Witness == initfin /\ init_state = WAIT1 /\ m_state = "CHECK"

\* C11 (checked under SpecCtl, where a write and a read request are also
\* pending together): in every cycle of the work phase with work_state
\* IDLE, the next work_state is REFRESH if the refresh counter has reached
\* its threshold, also with a write or a read pending; otherwise WRITE if a
\* write is pending, also with a read pending; otherwise READ if a read is
\* pending; otherwise IDLE.
C11_Arbitration ==
    [][(initfin /\ ~rst /\ work_state = IDLE) =>
          work_state' =
              IF refresh_cnt >= RefreshThreshold THEN REFRESH
              ELSE IF i_sysIO_dataWr_valid THEN WRITE
              ELSE IF i_sysIO_dataRd_ready THEN READ
              ELSE IDLE]_vars

\* WRITE has just been entered from IDLE, in a cycle in which a write and
\* a read were both pending.
C11_Witness ==
    /\ initfin /\ work_state = WRITE /\ work_cnt = 0
    /\ prev_wr_valid /\ prev_rd_ready

\* C12: in the work phase a refresh is issued at most RefreshThreshold
\* cycles plus the latency of one operation after the previous one (or
\* after initialization finished), whatever the bus requests, and
\* refresh_issued is asserted in the first cycle of REFRESH.
C12_RefreshNotStarved ==
    /\ age <= RefreshThreshold + MaxLatency
    /\ (work_state = REFRESH /\ work_cnt = 0) => (refresh_issued /\ age = 0)

C12_Witness ==
    initfin /\ age = RefreshThreshold + MaxLatency /\ work_state = IDLE /\ wb_valid

\* C13: before initfin is asserted work_state is IDLE and nothing is
\* serviced (no ready, no valid, no refresh, the array untouched), also
\* while the bus requests a transfer; once asserted, initfin stays asserted
\* until reset.
C13_WorkGatedByInit ==
    /\ [](~initfin =>
            (work_state = IDLE /\ ~wr_ready /\ ~rd_valid /\ ~refresh_issued))
    /\ [][/\ ~initfin => (mem' = mem /\ work_state' = IDLE)
          /\ (initfin /\ ~rst) => initfin']_vars

C13_Witness ==
    ~initfin /\ init_state = WAIT1 /\ sysio_wr_valid /\ work_state = IDLE /\ ~bus_ack

\* C14: refresh_issued is asserted exactly in the first cycle of each visit
\* to REFRESH and in no other cycle, and READ, WRITE and REFRESH are left
\* for IDLE after exactly that operation's latency.
OpLatency(w) ==
    IF w = READ THEN ReadLatency
    ELSE IF w = WRITE THEN WriteLatency ELSE RefreshLatency

C14_RefreshPulse ==
    /\ [](refresh_issued => (work_state = REFRESH /\ work_cnt = 0))
    /\ [](work_state # IDLE => work_cnt < OpLatency(work_state))
    /\ [][/\ refresh_issued' <=> (work_state' = REFRESH /\ work_state # REFRESH)
          /\ (~rst /\ work_state # IDLE) =>
                IF work_cnt + 1 < OpLatency(work_state)
                THEN work_state' = work_state /\ work_cnt' = work_cnt + 1
                ELSE work_state' = IDLE]_vars

C14_Witness ==
    work_state = REFRESH /\ work_cnt = RefreshLatency - 1 /\ ~refresh_issued /\ wb_valid

\* C15: in the cycle after one in which reset is asserted, init_state is
\* WAIT0, work_state is IDLE and the refresh counter is 0.
C15_ResetState ==
    [][rst => (init_state' = WAIT0 /\ work_state' = IDLE /\ refresh_cnt' = 0)]_vars

C15_Witness ==
    rst /\ initfin /\ init_state = WAIT1 /\ work_state = WRITE /\ refresh_cnt > 0

\* ------------------------------------------------------------------------
\* Claims checked under Spec, SpecCtor, SpecDbg and SpecPhy
\* ------------------------------------------------------------------------
\* C16: the bridge never asserts wr_valid and rd_ready in the same cycle,
\* so a write transfer (wr_valid and wr_ready) and a read transfer
\* (rd_valid and rd_ready) never occur in the same cycle.
C16_NoPipelining ==
    /\ ~(sysio_wr_valid /\ sysio_rd_ready)
    /\ ~((sysio_wr_valid /\ wr_ready) /\ (rd_valid /\ sysio_rd_ready))

C16_Witness ==
    ActiveWrite /\ wr_ready /\ rd_valid /\ sysio_wr_valid /\ ~sysio_rd_ready

\* C17: a width other than 16 or a capacity other than 2 gigabits makes
\* the constructor fail before sysio, the bus or the controller instance
\* exist; only (16, 2 gigabits) constructs.
Supported == k_width = 16 /\ k_bitsize = 2 * gbit

C17_ConfigRejected ==
    /\ [](~Supported => (k_made = {} /\ k_pc \in {"args", "bitsize", "error"}))
    /\ [](k_pc = "error" => (~Supported /\ k_made = {}))
    /\ [](k_pc = "done" => (Supported /\ {"sysio", "bus", "ctlr"} \subseteq k_made))
    /\ [][/\ (k_pc = "args" /\ k_width # 16) => k_pc' = "error"
          /\ (k_pc = "bitsize" /\ k_bitsize # 2 * gbit) => k_pc' = "error"]_vars

C17_Witness == k_pc = "error" /\ k_width = 16 /\ k_bitsize = gbit /\ k_made = {}

\* C18: sysio.addr and bus.adr are 27 bits wide, which is
\* ceil(log2(capacity / width)) for 2 gigabits of 16-bit words and holds
\* every word address; sel is 2 bits wide.
C18_AddressWidth ==
    /\ "sysio" \in k_made =>
          /\ k_addr_w = 27
          /\ 2 ^ k_addr_w >= k_bitsize \div (k_width \div 8)
          /\ k_sel_w = 2
    /\ "bus" \in k_made => k_adr_w = 27

C18_Witness == k_pc = "done" /\ k_addr_w = 27 /\ k_adr_w = 27 /\ k_sel_w = 2

\* C19: while the bus inputs and the controller's streaming outputs are
\* the same, every output of the bridge is the same, whatever init_state,
\* work_state, refresh_cnt and refresh_issued are.
BridgeInputs == <<cyc, stb, we, adr, dat_w, sel, wr_ready, rd_valid, rd_data>>
BridgeOutputs ==
    <<bus_ack, bus_dat_r, sysio_wr_valid, sysio_rd_ready, sysio_sel,
      sysio_addr, sysio_wr_data>>

C19_DebugObservational ==
    [][BridgeInputs' = BridgeInputs => BridgeOutputs' = BridgeOutputs]_vars

C19_Witness ==
    /\ init_state = WAIT1 /\ work_state = REFRESH /\ refresh_issued
    /\ refresh_cnt = RefreshThreshold
    /\ ActiveWrite /\ wr_ready /\ bus_ack

\* C20: on the pads cs_n, cas_n, ras_n and we_n are the complements of the
\* controller's cs, cas, ras and we.
C20_StrobePolarity ==
    /\ pads_cs_n # cs /\ pads_cas_n # cas
    /\ pads_ras_n # ras /\ pads_we_n # phy_we

C20_Witness == cs /\ ~cas /\ ras /\ ~phy_we /\ ~pads_cs_n /\ pads_cas_n

\* ------------------------------------------------------------------------
\* WBRegister (registered mode): comb block, storage and FSM
\* ------------------------------------------------------------------------
sysvars == <<busvars, ctlout, drv, rst, ctlregs, mvars, age, phyvars, ctorvars, portvars>>

reg_wb_valid == r_cyc /\ r_stb

\* a.eq(bus.adr), into a signal of addr_width bits
reg_a == IF reg_wb_valid THEN r_adr % (2 ^ addr_width) ELSE 0

\* ack.eq(1), the internal acknowledge
reg_ack == reg_wb_valid

\* d.eq(q), overridden by d.eq(bus.dat_w) in an active write
reg_d_acked ==
    IF reg_wb_valid /\ r_we /\ r_fsm = "READ_WRITE" THEN r_dat_w ELSE r_q
reg_d == IF reg_wb_valid /\ r_we THEN r_dat_w ELSE r_q

\* dat_r.eq(q) in an active read
reg_dat_r == IF reg_wb_valid /\ ~r_we THEN r_q ELSE Zero

\* fsm.act("READ_WRITE", bus.dat_r.eq(dat_r), bus.ack.eq(ack), ...)
reg_bus_dat_r_in_wait == IF r_fsm = "WAIT" THEN reg_dat_r ELSE Zero
reg_bus_dat_r == IF r_fsm = "READ_WRITE" THEN reg_dat_r ELSE Zero

reg_bus_ack_unregistered == reg_ack
reg_bus_ack == IF r_fsm = "READ_WRITE" THEN reg_ack ELSE FALSE

\* READ_WRITE: NextState("WAIT");  WAIT: If(ack, NextState("READ_WRITE"))
reg_next_state_stuck == "WAIT"
reg_next_state_on_write ==
    IF r_fsm = "READ_WRITE" THEN "WAIT"
    ELSE IF reg_ack /\ r_we THEN "READ_WRITE" ELSE "WAIT"
reg_next_state ==
    IF r_fsm = "READ_WRITE" THEN "WAIT"
    ELSE IF reg_ack THEN "READ_WRITE" ELSE "WAIT"

\* The clock edge: self.sync += q.eq(d), and the FSM's state register.
RegClock == r_q' = reg_d /\ r_fsm' = reg_next_state

\* ------------------------------------------------------------------------
\* SpecReg: the register under every sequence of bus inputs
\* ------------------------------------------------------------------------
RegWords == {<<0, d>> : d \in Data} \cup {magic, Add1(magic)}
RegAdrs == {0, test_addr}

RegIdle ==
    /\ \E c \in BOOLEAN, b \in BOOLEAN : ~(c /\ b) /\ r_cyc' = c /\ r_stb' = b
    /\ r_we' \in BOOLEAN /\ r_adr' \in RegAdrs /\ r_dat_w' \in RegWords
    /\ RegClock
    /\ UNCHANGED <<sysvars, tstvars, exvars, bldvars, walkvars>>

RegWrite ==
    /\ r_cyc' = TRUE /\ r_stb' = TRUE /\ r_we' = TRUE
    /\ r_adr' \in RegAdrs /\ r_dat_w' \in RegWords
    /\ RegClock
    /\ UNCHANGED <<sysvars, tstvars, exvars, bldvars, walkvars>>

RegRead ==
    /\ r_cyc' = TRUE /\ r_stb' = TRUE /\ r_we' = FALSE
    /\ r_adr' \in RegAdrs /\ r_dat_w' \in RegWords
    /\ RegClock
    /\ UNCHANGED <<sysvars, tstvars, exvars, bldvars, walkvars>>

RegNext == RegIdle \/ RegWrite \/ RegRead

SpecReg == Init /\ [][RegNext]_vars

\* ------------------------------------------------------------------------
\* SpecTest: WBRegisterTester with its bus wired to the register's
\* ------------------------------------------------------------------------
BusStates == {"WRITE", "READ", "WRITE_PLUS_ONE", "READ_PLUS_ONE"}
WriteStates == {"WRITE", "WRITE_PLUS_ONE"}

\* The tester's bus signals are comb outputs of its FSM state: the
\* statements of the handler of the state it is in, 0 elsewhere.
TesterDrive ==
    /\ r_cyc' = (t_fsm' \in BusStates)
    /\ r_stb' = (t_fsm' \in BusStates)
    /\ r_we' = (t_fsm' \in WriteStates)
    /\ r_adr' = IF t_fsm' \in BusStates THEN test_addr ELSE 0
    /\ r_dat_w' = CASE t_fsm' = "WRITE" -> magic
                    [] t_fsm' = "WRITE_PLUS_ONE" -> Add1(t_tmp')
                    [] OTHER -> Zero

\* WBInterface.controller_write_hdl in a state of the tester.
tester_write_hdl(state, next_state) ==
    /\ t_fsm = state
    /\ t_fsm' = IF reg_bus_ack THEN next_state ELSE state
    /\ t_tmp' = t_tmp

\* WBInterface.controller_read_hdl in a state of the tester, dat = tmp.
tester_read_hdl(state, next_state) ==
    /\ t_fsm = state
    /\ t_fsm' = IF reg_bus_ack THEN next_state ELSE state
    /\ t_tmp' = IF reg_bus_ack THEN reg_bus_dat_r ELSE t_tmp

\* Every clock edge: the register, self.sync += tries.eq(tries + 1), and
\* the bus outputs of the tester's next state.
TesterClock ==
    /\ RegClock /\ TesterDrive
    /\ t_tries' = (t_tries + 1) % TriesMod
    /\ UNCHANGED <<sysvars, exvars, bldvars, walkvars>>

Tester_START ==
    /\ t_fsm = "START" /\ t_fsm' = "WRITE" /\ t_tmp' = t_tmp
    /\ TesterClock

Tester_WRITE == tester_write_hdl("WRITE", "READ") /\ TesterClock

Tester_READ == tester_read_hdl("READ", "READ_CHECK") /\ TesterClock

Tester_READ_CHECK ==
    /\ t_fsm = "READ_CHECK" /\ t_fsm' = "WRITE_PLUS_ONE" /\ t_tmp' = t_tmp
    /\ TesterClock

Tester_WRITE_PLUS_ONE ==
    tester_write_hdl("WRITE_PLUS_ONE", "READ_PLUS_ONE") /\ TesterClock

Tester_READ_PLUS_ONE ==
    tester_read_hdl("READ_PLUS_ONE", "READ_PLUS_ONE_CHECK") /\ TesterClock

Tester_READ_PLUS_ONE_CHECK ==
    /\ t_fsm = "READ_PLUS_ONE_CHECK" /\ t_fsm' = "END" /\ t_tmp' = t_tmp
    /\ TesterClock

Tester_END ==
    /\ t_fsm = "END" /\ t_fsm' = "END" /\ t_tmp' = t_tmp
    /\ TesterClock

TestNext ==
    \/ Tester_START \/ Tester_WRITE \/ Tester_READ \/ Tester_READ_CHECK
    \/ Tester_WRITE_PLUS_ONE \/ Tester_READ_PLUS_ONE
    \/ Tester_READ_PLUS_ONE_CHECK \/ Tester_END

SpecTest == Init /\ [][TestNext]_vars

\* The clock does not stop.
SpecTestLive == Init /\ [][TestNext]_vars /\ WF_vars(TestNext)

\* C21: in READ_CHECK tmp is 0xDEADBEEF and in READ_PLUS_ONE_CHECK it is
\* 0xDEADBEEF + 1; an acknowledged write stores the word written and an
\* acknowledged read returns the word stored, so a read after a write of V
\* returns V.
C21_TesterAssertions ==
    /\ [](t_fsm = "READ_CHECK" => t_tmp = magic)
    /\ [](t_fsm = "READ_PLUS_ONE_CHECK" => t_tmp = Add1(magic))
    /\ [][(reg_bus_ack /\ r_we) => r_q' = r_dat_w]_vars
    /\ [][(reg_bus_ack /\ ~r_we) => (reg_bus_dat_r = r_q /\ r_q' = r_q)]_vars
    /\ [][(t_fsm \in {"READ", "READ_PLUS_ONE"} /\ t_fsm' # t_fsm) => t_tmp' = r_q]_vars

C21_Witness ==
    t_fsm = "READ_PLUS_ONE_CHECK" /\ t_tmp = <<57005, 48880>> /\ r_q = t_tmp

\* C22: the tester goes through START, WRITE, READ, READ_CHECK,
\* WRITE_PLUS_ONE, READ_PLUS_ONE, READ_PLUS_ONE_CHECK, END in that order,
\* leaves a bus state only in a cycle with ack, reaches END and stays
\* there with cyc and stb deasserted.
TesterOrder ==
    <<"START", "WRITE", "READ", "READ_CHECK", "WRITE_PLUS_ONE",
      "READ_PLUS_ONE", "READ_PLUS_ONE_CHECK", "END">>

TesterSuccessor(a, b) ==
    \E i \in 1..(Len(TesterOrder) - 1) : TesterOrder[i] = a /\ TesterOrder[i + 1] = b

C22_TesterSequencing ==
    /\ [][t_fsm' # t_fsm => TesterSuccessor(t_fsm, t_fsm')]_vars
    /\ [][(t_fsm \in BusStates /\ t_fsm' # t_fsm) => reg_bus_ack]_vars
    /\ [][(t_fsm \notin BusStates /\ t_fsm # "END") => t_fsm' # t_fsm]_vars
    /\ <>(t_fsm = "END")
    /\ [](t_fsm = "END" => [](t_fsm = "END" /\ ~r_cyc /\ ~r_stb))

C22_Witness == t_fsm = "END" /\ ~r_cyc /\ ~r_stb /\ t_tries = 0

\* C23: the outputs of the bridge do not depend on initfin: while the bus
\* inputs, wr_ready and rd_data are the same they are the same, and before
\* initialization has finished an active write asserts wr_valid and an
\* active read is acknowledged.
UngatedInputs == <<cyc, stb, we, sel, wr_ready, rd_data>>
UngatedOutputs == <<bus_ack, bus_dat_r, sysio_wr_valid, sysio_rd_ready, sysio_sel>>

C23_NoInitGating ==
    /\ [][UngatedInputs' = UngatedInputs => UngatedOutputs' = UngatedOutputs]_vars
    /\ []((~initfin /\ ActiveWrite) => sysio_wr_valid)
    /\ []((~initfin /\ ActiveRead) => bus_ack)

C23_Witness == ~initfin /\ ActiveRead /\ bus_ack /\ ~rd_valid

\* C24: at a clock edge q takes dat_w exactly when cyc, stb and we are all
\* asserted, in READ_WRITE and in WAIT, acknowledged or not; otherwise q is
\* kept.
C24_StorageFrame ==
    [][r_q' = IF r_cyc /\ r_stb /\ r_we THEN r_dat_w ELSE r_q]_vars

C24_Witness ==
    /\ r_fsm = "WAIT" /\ r_cyc /\ r_stb /\ r_we /\ ~reg_bus_ack
    /\ r_dat_w = magic /\ r_q # magic

\* C25: a request that is held is acknowledged in its first or in its
\* second cycle.
C25_BoundedResponse ==
    [][(reg_wb_valid /\ ~reg_bus_ack /\ r_cyc' /\ r_stb') => reg_bus_ack']_vars

C25_Witness == r_fsm = "WAIT" /\ reg_wb_valid /\ ~r_we /\ ~reg_bus_ack

\* C26: ack is asserted only in READ_WRITE with cyc and stb asserted, never
\* in WAIT, never in two consecutive cycles; READ_WRITE is followed by WAIT
\* and WAIT by READ_WRITE only after a cycle with an active transaction.
C26_AckDiscipline ==
    /\ [](reg_bus_ack => (r_fsm = "READ_WRITE" /\ r_cyc /\ r_stb))
    /\ [](r_fsm = "WAIT" => ~reg_bus_ack)
    /\ [][reg_bus_ack => ~reg_bus_ack']_vars
    /\ [][r_fsm = "READ_WRITE" => r_fsm' = "WAIT"]_vars
    /\ [][(r_fsm = "WAIT" /\ r_fsm' = "READ_WRITE") => (r_cyc /\ r_stb)]_vars

C26_Witness == r_fsm = "WAIT" /\ r_cyc /\ r_stb /\ r_q = magic

\* ------------------------------------------------------------------------
\* SpecEx: the Example FSM
\* ------------------------------------------------------------------------
\* self.s.eq(1) in FOO, self.s.eq(0) in BAR
ex_s == IF e_fsm = "FOO" THEN 1 ELSE 0

\* x[self.counter] selects by a Case over the elements of x whose default
\* is the last one: an index past the end selects x[ArrayLen - 1].
ArrayIndex(k) == IF k < ArrayLen THEN k ELSE ArrayLen - 1

\* NextValue(self.counter, self.counter + 1), into 8 bits
counter_next_nine_bits == (e_counter + 1) % (2 * CounterMod)
counter_next == (e_counter + 1) % CounterMod

ExFrame ==
    UNCHANGED <<sysvars, regvars, tstvars, bldvars, walkvars>>

\* myfsm.act("FOO", self.s.eq(1), NextState("BAR"))
ExFOO ==
    /\ e_n < MaxCycles /\ e_fsm = "FOO"
    /\ e_fsm' = "BAR" /\ e_n' = e_n + 1
    /\ UNCHANGED <<e_counter, e_x>> /\ ExFrame

\* myfsm.act("BAR", self.s.eq(0), NextValue(counter, counter + 1),
\*           NextValue(x[counter], 89), NextState("FOO"))
ExBAR ==
    /\ e_n < MaxCycles /\ e_fsm = "BAR"
    /\ e_fsm' = "FOO" /\ e_n' = e_n + 1
    /\ e_counter' = counter_next
    /\ e_x' = [e_x EXCEPT ![ArrayIndex(e_counter)] = x_value % ElemMod]
    /\ ExFrame

ExNext == ExFOO \/ ExBAR

SpecEx == Init /\ [][ExNext]_vars

\* C27: from reset the state alternates FOO, BAR, FOO, .. at every clock
\* edge, s is 1 exactly in FOO, the counter goes up by 1 modulo 256 at the
\* end of a cycle in BAR and is kept by a cycle in FOO, and after 2k
\* cycles it is k mod 256.
C27_ExampleFSM ==
    /\ [](e_fsm = IF e_n % 2 = 0 THEN "FOO" ELSE "BAR")
    /\ [][e_fsm' # e_fsm]_vars
    /\ []((ex_s = 1 <=> e_fsm = "FOO") /\ (ex_s = 0 <=> e_fsm = "BAR"))
    /\ [][e_fsm = "BAR" => e_counter' = (e_counter + 1) % 256]_vars
    /\ [][e_fsm = "FOO" => e_counter' = e_counter]_vars
    /\ [](e_n % 2 = 0 => e_counter = (e_n \div 2) % 256)

C27_Witness == e_n = 514 /\ e_fsm = "FOO" /\ e_counter = 1 /\ ex_s = 1

\* ------------------------------------------------------------------------
\* SpecBuild: SlowDDR3._needs_rebuild and SlowDDR3.do_finalize
\* ------------------------------------------------------------------------
\* The file system: the modification time of the target and of each
\* dependency, Missing for a file that does not exist.
Files == Mtimes \cup {Missing}

RECURSIVE SeqsUpTo(_)
SeqsUpTo(n) ==
    IF n = 0 THEN {<<>>}
    ELSE LET shorter == SeqsUpTo(n - 1)
         IN  shorter \cup {Append(q, f) : q \in {r \in shorter : Len(r) = n - 1}, f \in Files}

\* _needs_rebuild is called with any list of dependencies; do_finalize
\* calls it with [scala_file].
InitBuild ==
    /\ InitSys /\ InitPhy /\ InitNoCtor
    /\ InitReg /\ InitTester /\ InitExample /\ InitNoWalk /\ InitPorts
    /\ b_top \in {"_needs_rebuild", "do_finalize"}
    /\ b_pc = IF b_top = "do_finalize" THEN "do_finalize" ELSE "exists"
    /\ b_tgt \in Files
    /\ b_deps \in IF b_top = "do_finalize" THEN {<<f>> : f \in Files} ELSE SeqsUpTo(MaxDeps)
    /\ b_i = 0 /\ b_ret = FALSE /\ b_ran = FALSE /\ b_added = FALSE

BuildFrame ==
    UNCHANGED <<sysvars, regvars, tstvars, exvars, walkvars, b_top, b_deps>>

\* os.path.getmtime(dep) > tgt_mtime
Newer_or_equal(dep, tgt) == dep >= tgt
Newer(dep, tgt) == dep > tgt

\* do_finalize up to the call: the paths are computed.
FinalizeCall ==
    /\ b_pc = "do_finalize"
    /\ b_pc' = "exists"
    /\ UNCHANGED <<b_tgt, b_i, b_ret, b_ran, b_added>> /\ BuildFrame

\* if not os.path.exists(target): return True
\* tgt_mtime = os.path.getmtime(target)
NeedsRebuildExists ==
    /\ b_pc = "exists"
    /\ IF b_tgt = Missing
       THEN b_ret' = TRUE /\ b_pc' = "return" /\ b_i' = b_i
       ELSE b_ret' = b_ret /\ b_pc' = "loop" /\ b_i' = 1
    /\ UNCHANGED <<b_tgt, b_ran, b_added>> /\ BuildFrame

\* for dep in dependencies: if os.path.getmtime(dep) > tgt_mtime: return True
\* return False
\* os.path.getmtime raises for a dependency that does not exist.
NeedsRebuildLoop ==
    /\ b_pc = "loop"
    /\ IF b_i > Len(b_deps)
       THEN b_ret' = FALSE /\ b_pc' = "return" /\ b_i' = b_i
       ELSE IF b_deps[b_i] = Missing
       THEN b_ret' = b_ret /\ b_pc' = "raised_getmtime" /\ b_i' = b_i
       ELSE IF Newer(b_deps[b_i], b_tgt)
       THEN b_ret' = TRUE /\ b_pc' = "return" /\ b_i' = b_i
       ELSE b_ret' = b_ret /\ b_pc' = "loop" /\ b_i' = b_i + 1
    /\ UNCHANGED <<b_tgt, b_ran, b_added>> /\ BuildFrame

\* The value goes back to the caller.
NeedsRebuildReturn ==
    /\ b_pc = "return"
    /\ b_pc' = IF b_top = "do_finalize" THEN "decide" ELSE "done"
    /\ UNCHANGED <<b_tgt, b_i, b_ret, b_ran, b_added>> /\ BuildFrame

\* if self._needs_rebuild(...): subprocess.check_call(["sbt", ...])
\* check_call waits for the generator and raises when it exits with an
\* error.  Whatever its exit status, the generator has written the target
\* or has left it as it was.
FinalizeGenerate ==
    /\ b_pc = "decide" /\ b_ret
    /\ b_ran' = TRUE
    /\ b_pc' \in {"add", "raised_check_call"}
    /\ b_tgt' \in {b_tgt, MaxMtime}
    /\ UNCHANGED <<b_i, b_ret, b_added>> /\ BuildFrame

FinalizeSkip ==
    /\ b_pc = "decide" /\ ~b_ret
    /\ b_pc' = "add"
    /\ UNCHANGED <<b_tgt, b_i, b_ret, b_ran, b_added>> /\ BuildFrame

\* self.platform.add_source(verilog_path)
FinalizeAddSource ==
    /\ b_pc = "add"
    /\ b_added' = TRUE /\ b_pc' = "done"
    /\ UNCHANGED <<b_tgt, b_i, b_ret, b_ran>> /\ BuildFrame

BuildNext ==
    \/ FinalizeCall \/ NeedsRebuildExists \/ NeedsRebuildLoop \/ NeedsRebuildReturn
    \/ FinalizeGenerate \/ FinalizeSkip \/ FinalizeAddSource

SpecBuild == InitBuild /\ [][BuildNext]_vars

\* The target does not exist or some dependency is strictly newer.
RebuildDue ==
    \/ b_tgt = Missing
    \/ \E i \in 1..Len(b_deps) : b_deps[i] # Missing /\ b_deps[i] > b_tgt

\* C28 as stated: _needs_rebuild returns True exactly when the target
\* does not exist or a dependency is strictly newer than it, so with a
\* rebuild due the call returns; do_finalize runs the generator only after
\* True and has registered the source whenever it is over.
C28_RebuildDecision ==
    /\ b_pc = "return" => (b_ret <=> RebuildDue)
    /\ RebuildDue => b_pc # "raised_getmtime"
    /\ b_ran => b_ret
    /\ (b_top = "do_finalize" /\ b_pc \in {"done", "raised_check_call"}) => b_added

\* C28 amended: the value returned is True exactly when the target does
\* not exist or a dependency is strictly newer (equal times: False); the
\* call raises instead when the target exists and a dependency examined
\* does not; do_finalize runs the generator exactly after True, and
\* registers the source after True and after False unless the generator
\* fails.
C28_RebuildDecisionAmended ==
    /\ b_pc = "return" => (b_ret <=> RebuildDue)
    /\ b_pc = "raised_getmtime" =>
          (b_tgt # Missing /\ b_deps[b_i] = Missing
           /\ \A j \in 1..(b_i - 1) : b_deps[j] # Missing /\ b_deps[j] <= b_tgt)
    /\ b_ran => b_ret
    /\ (b_top = "do_finalize" /\ b_pc \in {"add", "done"}) => (b_ran <=> b_ret)
    /\ (b_top = "do_finalize" /\ b_pc = "done") => b_added
    /\ b_pc = "raised_check_call" => (b_ran /\ b_ret /\ ~b_added)

C28_Witness ==
    /\ b_top = "do_finalize" /\ b_pc = "done" /\ b_tgt = 1 /\ b_deps = <<1>>
    /\ ~b_ret /\ ~b_ran /\ b_added

\* ------------------------------------------------------------------------
\* SpecWalk: get_signals and get_signals_tree
\* ------------------------------------------------------------------------
\* An object graph.  Object o may have
\*   a Signal as attribute "sig"               (g_sig[o]; the Signal is o),
\*   a Record as attribute "rec"               (g_rec[o]),
\*   the object g_child[o] as attribute "child", a plain attribute,
\*   a list holding the object g_item[o] as attribute "item".
\* id(o) is o and the id of o's list is ListId(o).  The walk starts at Root.
Root == 1
ListId(o) == MaxObj + o

\* get_signals(obj, recurse, stack): the Signals found, or AssertionError
\* raised (assert False on a Record attribute).
RECURSIVE get_signals(_, _, _)
get_signals(obj, recurse, stack) ==
    IF obj \in stack THEN [raised |-> FALSE, sigs |-> {}]
    ELSE LET direct == IF g_sig[obj] THEN {obj} ELSE {}
             none == [raised |-> FALSE, sigs |-> {}]
             \* get_signals(attr, stack=stack | {id(obj), id(attr)})
             child == IF recurse /\ g_child[obj] # NoObj
                      THEN get_signals(g_child[obj], TRUE, stack \cup {obj, g_child[obj]})
                      ELSE none
             \* for v in attr: get_signals(v, stack=stack | {id(obj), id(attr)})
             item == IF recurse /\ g_item[obj] # NoObj
                     THEN get_signals(g_item[obj], TRUE, stack \cup {obj, ListId(obj)})
                     ELSE none
         IN  [raised |-> g_rec[obj] \/ child.raised \/ item.raised,
              sigs |-> direct \cup child.sigs \cup item.sigs]

\* get_signals_tree(obj, stack), as the set of key paths that lead to a
\* Signal; a sub-tree is entered under its key only if it is not empty.
RECURSIVE get_signals_tree(_, _)
get_signals_tree(obj, stack) ==
    IF obj \in stack THEN {}
    ELSE LET direct == IF g_sig[obj] THEN {<<"sig">>} ELSE {}
             record == IF g_rec[obj] THEN {<<"rec">>} ELSE {}
             child == IF g_child[obj] # NoObj
                      THEN get_signals_tree(g_child[obj], stack \cup {obj, g_child[obj]})
                      ELSE {}
             item == IF g_item[obj] # NoObj
                     THEN get_signals_tree(g_item[obj], stack \cup {obj, ListId(obj)})
                     ELSE {}
         IN  direct \cup record
             \cup {<<"child">> \o q : q \in child}
             \cup {<<"item">> \o q : q \in item}

InitWalk ==
    /\ InitSys /\ InitPhy /\ InitNoCtor
    /\ InitReg /\ InitTester /\ InitExample /\ InitNoBuild /\ InitPorts
    /\ g_pc = "get_signals"
    /\ g_sig \in [Objs -> BOOLEAN] /\ g_rec \in [Objs -> BOOLEAN]
    /\ g_child \in [Objs -> Objs \cup {NoObj}]
    /\ g_item \in [Objs -> Objs \cup {NoObj}]
    /\ g_recurse \in BOOLEAN
    /\ g_ret = [raised |-> FALSE, sigs |-> {}] /\ g_tree = {}

WalkFrame ==
    UNCHANGED <<sysvars, regvars, tstvars, exvars, bldvars,
                g_sig, g_rec, g_child, g_item, g_recurse>>

\* get_signals(Root, recurse=g_recurse)
WalkGetSignals ==
    /\ g_pc = "get_signals"
    /\ g_ret' = get_signals(Root, g_recurse, {})
    /\ g_pc' = "get_signals_tree"
    /\ g_tree' = g_tree /\ WalkFrame

\* get_signals_tree(Root)
WalkGetSignalsTree ==
    /\ g_pc = "get_signals_tree"
    /\ g_tree' = get_signals_tree(Root, {})
    /\ g_pc' = "done"
    /\ g_ret' = g_ret /\ WalkFrame

WalkNext == WalkGetSignals \/ WalkGetSignalsTree

SpecWalk == InitWalk /\ [][WalkNext]_vars

\* C29 as stated: with recurse=True the Signal of an object that is a
\* plain attribute of Root is returned, next to Root's own; the tree has an
\* entry for a plain attribute that holds a Signal.
HoldsSignal(o) == o # NoObj /\ g_sig[o]

C29_NestedSignals ==
    /\ (g_pc \in {"get_signals_tree", "done"} /\ g_recurse /\ ~g_ret.raised) =>
          /\ g_sig[Root] => Root \in g_ret.sigs
          /\ HoldsSignal(g_child[Root]) => g_child[Root] \in g_ret.sigs
    /\ (g_pc = "done" /\ HoldsSignal(g_child[Root])) =>
          \E q \in g_tree : q[1] = "child"

\* What the code does: a plain attribute is never entered, because its own
\* id is on the stack it is entered with.
C29_PlainAttributeSkipped ==
    /\ g_pc = "done" => \A q \in g_tree : q[1] # "child"
    /\ (g_pc \in {"get_signals_tree", "done"} /\ g_item[Root] = NoObj) =>
          g_ret.sigs \subseteq {Root}

C29_Reached ==
    /\ g_pc = "done" /\ g_recurse /\ ~g_ret.raised
    /\ g_child[Root] = 2 /\ g_sig[2] /\ g_item[Root] = NoObj
    /\ 2 \notin g_ret.sigs

====
